---- MODULE Spec2Model ----
(***************************************************************************)
(* Logical tiles of the execution engine (executor/logical_tile.cpp), the  *)
(* iterator over their valid rows, ownership of base tiles, and the        *)
(* materialization of a logical tile into a physical one.                  *)
(*                                                                         *)
(* C++ vectors are 0-based; a TLA+ sequence holds element i at index i+1.  *)
(* assert() aborts the process in a debug build and is compiled out when   *)
(* NDEBUG is defined; the build is chosen once, in Init.                   *)
(***************************************************************************)
EXTENDS Integers, Sequences, FiniteSets, TLC

\* ------------------------------------------------------------------ bounds
\* Longest position list handed to AddPositionList.
MaxLen == 2
\* Most position lists and columns, together, added to one logical tile.
MaxEntries == 3

\* ------------------------------------------- physical tiles (storage::Tile)
\* Rows and columns of every base tile.
PhysRows == 2
PhysCols == 2
\* The base tiles that exist, by identity (storage::Tile *).
Tiles == {"t1", "t2"}
\* The logical tiles that exist, by identity (LogicalTile *).
LTiles == {1, 2}

\* id_t is unsigned; INVALID_ID is its largest value (width scaled down).
INVALID_ID == 255
IdModulus == INVALID_ID + 1

\* Tile::GetValue(row, column): the stored value, distinct per cell.
TileValue(t, row, col) ==
  (IF t = "t1" THEN 100 ELSE 200) + 10 * row + col

\* Tile::GetTuple(row): a copy of the whole physical row.
TileTuple(t, row) ==
  [c \in 0 .. PhysCols - 1 |-> TileValue(t, row, c)]

\* Position lists of at most n physical row ids.
Lists(n) ==
  UNION {[1 .. k -> 0 .. PhysRows - 1] : k \in 0 .. n}

\* ------------------------------------------------------------------- state
VARIABLES
  NDEBUG,            \* TRUE: asserts are compiled out
  aborted,           \* TRUE: an assert failed and abort() ended the process
  position_lists,    \* per logical tile: sequence of position lists
  schema,            \* per logical tile: sequence of ColumnPointer
  valid_rows,        \* per logical tile: sequence of BOOLEAN
  num_tuples,        \* per logical tile: num_tuples_
  owned_base_tiles,  \* per logical tile: set of base tiles
  alive,             \* per logical tile: not yet destroyed
  deleted,           \* per base tile: how many times delete ran on it
  it_tile,           \* iterator: tile_ (0: no iterator obtained)
  it_pos,            \* iterator: pos_
  it_mutated,        \* the bitmap changed since begin()
  visited,           \* rows the traversal dereferenced, in order
  own_requested,     \* per logical tile: base tiles an accepted AddColumn
                     \* passed with own_base_tile set (history)
  prev_visited,      \* rows the traversal before this one dereferenced, when
                     \* the bitmap did not change during it (history)
  order_by,          \* the OrderByNode: sort_keys_, descend_flags_,
                     \* output_column_ids_, backend_
  skip_list_map      \* the SkipListMap: set of <<key, value>> entries

vars ==
  <<NDEBUG, aborted, position_lists, schema, valid_rows, num_tuples,
    owned_base_tiles, alive, deleted, it_tile, it_pos, it_mutated, visited,
    own_requested, prev_visited, order_by, skip_list_map>>

tileVars ==
  <<position_lists, schema, valid_rows, num_tuples, owned_base_tiles>>

iterVars ==
  <<it_tile, it_pos, it_mutated, visited, prev_visited>>

otherVars ==
  <<order_by, skip_list_map>>

logicalTileVars ==
  <<NDEBUG, aborted, tileVars, alive, deleted, iterVars, own_requested>>

\* Backends an OrderByNode may be given.
Backends == {"b1", "b2"}

\* No OrderByNode constructed yet.
NoOrderByNode ==
  [constructed |-> FALSE, sort_keys |-> <<>>, descend_flags |-> <<>>,
   output_column_ids |-> <<>>, backend |-> "b1"]

\* num_tuples_ before the first position list (member initializer).
DefaultNumTuples == 0

\* LogicalTile::LogicalTile(): every container empty.
Init ==
  /\ NDEBUG \in BOOLEAN
  /\ aborted = FALSE
  /\ position_lists = [lt \in LTiles |-> <<>>]
  /\ schema = [lt \in LTiles |-> <<>>]
  /\ valid_rows = [lt \in LTiles |-> <<>>]
  /\ num_tuples = [lt \in LTiles |-> DefaultNumTuples]
  /\ owned_base_tiles = [lt \in LTiles |-> {}]
  /\ alive = [lt \in LTiles |-> TRUE]
  /\ deleted = [t \in Tiles |-> 0]
  /\ it_tile = 0
  /\ it_pos = INVALID_ID
  /\ it_mutated = FALSE
  /\ visited = <<>>
  /\ own_requested = [lt \in LTiles |-> {}]
  /\ prev_visited = <<>>
  /\ order_by = NoOrderByNode
  /\ skip_list_map = {}

\* A failed assert in a debug build: abort(), nothing else changes.
Abort ==
  /\ aborted' = TRUE
  /\ UNCHANGED <<otherVars, NDEBUG, tileVars, alive, deleted, iterVars, own_requested>>

\* An operation may run on tile lt.
Callable(lt) ==
  /\ ~aborted
  /\ alive[lt]

\* std::vector::resize(n, val).
Resize(v, n, val) ==
  IF n <= Len(v)
  THEN SubSeq(v, 1, n)
  ELSE v \o [i \in 1 .. n - Len(v) |-> val]

\* assert of AddPositionList: no list yet, or the same length as the first.
AddPositionListAssert(lt, pl) ==
  \/ Len(position_lists[lt]) = 0
  \/ Len(position_lists[lt][1]) = Len(pl)

\* Mutant: the first list sets num_tuples_ but the bitmap is never resized.
AddPositionListBody_NoResize(lt, pl) ==
  /\ IF Len(position_lists[lt]) = 0
     THEN num_tuples' = [num_tuples EXCEPT ![lt] = Len(pl)]
     ELSE UNCHANGED num_tuples
  /\ position_lists' = [position_lists EXCEPT ![lt] = Append(@, pl)]
  /\ UNCHANGED <<otherVars, NDEBUG, aborted, schema, valid_rows, owned_base_tiles, alive,
                 deleted, iterVars, own_requested>>

\* Mutant: every call, not only the first, sets num_tuples_ and fills the
\* bitmap anew (valid_rows_.assign(size, true)).
AddPositionListBody_ResetBitmap(lt, pl) ==
  /\ num_tuples' = [num_tuples EXCEPT ![lt] = Len(pl)]
  /\ valid_rows' = [valid_rows EXCEPT ![lt] = [i \in 1 .. Len(pl) |-> TRUE]]
  /\ position_lists' = [position_lists EXCEPT ![lt] = Append(@, pl)]
  /\ it_mutated' = (it_mutated \/ (it_tile = lt /\ valid_rows'[lt] /= valid_rows[lt]))
  /\ UNCHANGED <<otherVars, NDEBUG, aborted, schema, owned_base_tiles, alive, deleted,
                 it_tile, it_pos, visited, prev_visited, own_requested>>

\* The body of AddPositionList once its assert passed or is compiled out.
AddPositionListBody(lt, pl) ==
  /\ IF Len(position_lists[lt]) = 0
     THEN /\ num_tuples' = [num_tuples EXCEPT ![lt] = Len(pl)]
          /\ valid_rows' =
               [valid_rows EXCEPT ![lt] = Resize(valid_rows[lt], Len(pl), TRUE)]
     ELSE UNCHANGED <<num_tuples, valid_rows>>
  /\ position_lists' = [position_lists EXCEPT ![lt] = Append(@, pl)]
  /\ it_mutated' = (it_mutated \/ (it_tile = lt /\ valid_rows'[lt] /= valid_rows[lt]))
  /\ UNCHANGED <<otherVars, NDEBUG, aborted, schema, owned_base_tiles, alive, deleted,
                 it_tile, it_pos, visited, prev_visited, own_requested>>

\* LogicalTile::AddPositionList(position_list).
AddPositionList(lt, pl) ==
  /\ Callable(lt)
  /\ IF ~NDEBUG /\ ~AddPositionListAssert(lt, pl)
     THEN Abort
     ELSE AddPositionListBody(lt, pl)

\* Mutant: AddPositionList returns position_lists_.size().
AddPositionListReturn_Size(lt) ==
  Len(position_lists[lt])

\* Value AddPositionList returns: index of the list just stored.
AddPositionListReturn(lt) ==
  Len(position_lists[lt]) - 1

\* assert of AddColumn: the position list exists.
AddColumnAssert(lt, position_list_idx) ==
  position_list_idx < Len(position_lists[lt])

\* Mutant: the base tile is inserted in owned_base_tiles_ whatever the flag.
AddColumnBody_AlwaysOwn(lt, base_tile, own_base_tile, origin_column_id, position_list_idx) ==
  /\ schema' =
       [schema EXCEPT ![lt] =
          Append(@, [base_tile |-> base_tile,
                     origin_column_id |-> origin_column_id,
                     position_list_idx |-> position_list_idx])]
  /\ owned_base_tiles' = [owned_base_tiles EXCEPT ![lt] = @ \cup {base_tile}]
  /\ own_requested' =
       IF own_base_tile
       THEN [own_requested EXCEPT ![lt] = @ \cup {base_tile}]
       ELSE own_requested
  /\ UNCHANGED <<otherVars, NDEBUG, aborted, position_lists, valid_rows, num_tuples,
                 alive, deleted, iterVars>>

\* The body of AddColumn once its assert passed or is compiled out.
AddColumnBody(lt, base_tile, own_base_tile, origin_column_id, position_list_idx) ==
  /\ schema' =
       [schema EXCEPT ![lt] =
          Append(@, [base_tile |-> base_tile,
                     origin_column_id |-> origin_column_id,
                     position_list_idx |-> position_list_idx])]
  /\ owned_base_tiles' =
       IF own_base_tile
       THEN [owned_base_tiles EXCEPT ![lt] = @ \cup {base_tile}]
       ELSE owned_base_tiles
  /\ own_requested' =
       IF own_base_tile
       THEN [own_requested EXCEPT ![lt] = @ \cup {base_tile}]
       ELSE own_requested
  /\ UNCHANGED <<otherVars, NDEBUG, aborted, position_lists, valid_rows, num_tuples,
                 alive, deleted, iterVars>>

\* LogicalTile::AddColumn(base_tile, own_base_tile, origin_column_id, idx).
AddColumn(lt, base_tile, own_base_tile, origin_column_id, position_list_idx) ==
  /\ Callable(lt)
  /\ IF ~NDEBUG /\ ~AddColumnAssert(lt, position_list_idx)
     THEN Abort
     ELSE AddColumnBody(lt, base_tile, own_base_tile, origin_column_id,
                        position_list_idx)

\* Narrowing of the validity bitmap by a filtering stage: row r turns invisible.
InvalidateRow(lt, r) ==
  /\ Callable(lt)
  /\ r < Len(valid_rows[lt])
  /\ valid_rows[lt][r + 1]
  /\ valid_rows' = [valid_rows EXCEPT ![lt][r + 1] = FALSE]
  /\ it_mutated' = (it_mutated \/ it_tile = lt)
  /\ UNCHANGED <<otherVars, NDEBUG, aborted, position_lists, schema, num_tuples,
                 owned_base_tiles, alive, deleted, it_tile, it_pos, visited,
                 prev_visited, own_requested>>

\* Mutant: the destructor deletes the base tile of every column that
\* references an owned tile, once per column.
DeleteTile_PerColumn(d, lt) ==
  [t \in Tiles |->
     IF t \in owned_base_tiles[lt]
     THEN d[t] + Cardinality({i \in 1 .. Len(schema[lt]) : schema[lt][i].base_tile = t})
     ELSE d[t]]

\* The destructor's loop: one delete of every base tile in the owned set.
DeleteTile(d, lt) ==
  [t \in Tiles |-> IF t \in owned_base_tiles[lt] THEN d[t] + 1 ELSE d[t]]

\* LogicalTile::~LogicalTile(): delete every owned base tile.
Destroy(lt) ==
  /\ ~aborted
  /\ alive[lt]
  /\ deleted' = DeleteTile(deleted, lt)
  /\ alive' = [alive EXCEPT ![lt] = FALSE]
  /\ it_tile' = IF it_tile = lt THEN 0 ELSE it_tile
  /\ it_pos' = IF it_tile = lt THEN INVALID_ID ELSE it_pos
  /\ it_mutated' = IF it_tile = lt THEN FALSE ELSE it_mutated
  /\ visited' = IF it_tile = lt THEN <<>> ELSE visited
  /\ prev_visited' = IF it_tile = lt THEN <<>> ELSE prev_visited
  /\ UNCHANGED <<otherVars, NDEBUG, aborted, tileVars, own_requested>>

\* Mutant: NumTuples() counts the rows whose validity bit is set.
NumTuples_CountValid(lt) ==
  Cardinality({i \in 1 .. Len(valid_rows[lt]) : valid_rows[lt][i]})

\* LogicalTile::NumTuples().
NumTuples(lt) ==
  num_tuples[lt]

\* LogicalTile::NumCols().
NumCols(lt) ==
  Len(schema[lt])

\* ---------------------------------------------------------------- reads
\* Outcomes of a read. Undefined behaviour (an out-of-bounds vector read, a
\* read through a deleted base tile) may produce any of them.
AbortOutcome == [kind |-> "abort", v |-> 0]
InvalidValue == [kind |-> "invalid", v |-> 0]
WildOutcome == [kind |-> "wild", v |-> 0]
ValueOutcome(n) == [kind |-> "value", v |-> n]

AnyValueOutcome ==
  {AbortOutcome, InvalidValue, WildOutcome}
    \cup {ValueOutcome(TileValue(t, row, col)) :
            t \in Tiles, row \in 0 .. PhysRows - 1, col \in 0 .. PhysCols - 1}

\* vector::operator[] inside its bounds.
InBounds(v, i) ==
  i < Len(v)

\* The column pointer, position list and base tile of (column_id, tuple_id)
\* can all be read without undefined behaviour.
Resolves(lt, column_id, tuple_id) ==
  /\ InBounds(schema[lt], column_id)
  /\ InBounds(position_lists[lt], schema[lt][column_id + 1].position_list_idx)
  /\ InBounds(position_lists[lt][schema[lt][column_id + 1].position_list_idx + 1],
              tuple_id)
  /\ deleted[schema[lt][column_id + 1].base_tile] = 0

\* Mutant: the logical row id is used as the physical row id.
BaseTupleId_NoIndirection(lt, column_id, tuple_id) ==
  tuple_id

\* base_tuple_id = position_lists_[cp.position_list_idx][tuple_id].
BaseTupleId(lt, column_id, tuple_id) ==
  position_lists[lt][schema[lt][column_id + 1].position_list_idx + 1][tuple_id + 1]

\* LogicalTile::GetBaseTile(column_id).
GetBaseTile(lt, column_id) ==
  schema[lt][column_id + 1].base_tile

\* The two asserts that open GetTuple and GetValue.
ReadAsserts(lt, column_id, tuple_id) ==
  /\ column_id < Len(schema[lt])
  /\ tuple_id < Len(valid_rows[lt])

\* Mutant: the column is resolved before the validity bit is looked at.
GetValue_ResolveFirst(lt, column_id, tuple_id) ==
  IF ~NDEBUG /\ ~ReadAsserts(lt, column_id, tuple_id)
  THEN {AbortOutcome}
  ELSE IF ~Resolves(lt, column_id, tuple_id)
  THEN AnyValueOutcome
  ELSE IF ~valid_rows[lt][tuple_id + 1]
  THEN {InvalidValue}
  ELSE {ValueOutcome(TileValue(GetBaseTile(lt, column_id),
                               BaseTupleId(lt, column_id, tuple_id),
                               schema[lt][column_id + 1].origin_column_id))}

\* LogicalTile::GetValue(column_id, tuple_id): the set of possible outcomes.
GetValue(lt, column_id, tuple_id) ==
  IF ~NDEBUG /\ ~ReadAsserts(lt, column_id, tuple_id)
  THEN {AbortOutcome}
  ELSE IF ~InBounds(valid_rows[lt], tuple_id)
  THEN AnyValueOutcome
  ELSE IF ~valid_rows[lt][tuple_id + 1]
  THEN {InvalidValue}
  ELSE IF ~Resolves(lt, column_id, tuple_id)
  THEN AnyValueOutcome
  ELSE {ValueOutcome(TileValue(GetBaseTile(lt, column_id),
                               BaseTupleId(lt, column_id, tuple_id),
                               schema[lt][column_id + 1].origin_column_id))}

\* A tuple pointer: NULL, or the copy of a physical row.
NullTuple == [kind |-> "null", v |-> <<>>]
AbortTuple == [kind |-> "abort", v |-> <<>>]
WildTuple == [kind |-> "wild", v |-> <<>>]
TupleOutcome(t, row) ==
  [kind |-> "tuple", v |-> [c \in 1 .. PhysCols |-> TileTuple(t, row)[c - 1]]]

AnyTupleOutcome ==
  {AbortTuple, NullTuple, WildTuple}
    \cup {TupleOutcome(t, row) : t \in Tiles, row \in 0 .. PhysRows - 1}

\* LogicalTile::GetTuple(column_id, tuple_id): the set of possible outcomes.
GetTuple(lt, column_id, tuple_id) ==
  IF ~NDEBUG /\ ~ReadAsserts(lt, column_id, tuple_id)
  THEN {AbortTuple}
  ELSE IF ~InBounds(valid_rows[lt], tuple_id)
  THEN AnyTupleOutcome
  ELSE IF ~valid_rows[lt][tuple_id + 1]
  THEN {NullTuple}
  ELSE IF ~Resolves(lt, column_id, tuple_id)
  THEN AnyTupleOutcome
  ELSE {TupleOutcome(GetBaseTile(lt, column_id),
                     BaseTupleId(lt, column_id, tuple_id))}

\* ------------------------------------------------------------- iterator
\* while (pos_ < valid_rows_.size() && !valid_rows_[pos_]) pos_++;
RECURSIVE SkipInvalid(_, _)
SkipInvalid(v, pos) ==
  IF pos < Len(v) /\ ~v[pos + 1]
  THEN SkipInvalid(v, pos + 1)
  ELSE pos

\* Mutant: a position that ran off the bitmap is not turned into INVALID_ID.
PastTheEnd_Keep(v, pos) ==
  pos

\* if (pos_ == valid_rows_.size()) pos_ = INVALID_ID;
PastTheEnd(v, pos) ==
  IF pos = Len(v) THEN INVALID_ID ELSE pos

\* Mutant: begin() starts at row 0 whether it is valid or not.
IteratorInit_NoSkip(lt, begin) ==
  IF ~begin
  THEN INVALID_ID
  ELSE PastTheEnd(valid_rows[lt], 0)

\* LogicalTile::iterator::iterator(tile, begin): the value of pos_.
IteratorInit(lt, begin) ==
  IF ~begin
  THEN INVALID_ID
  ELSE PastTheEnd(valid_rows[lt], SkipInvalid(valid_rows[lt], 0))

\* The first pos_++ of operator++, in id_t arithmetic.
Bump(pos) ==
  (pos + 1) % IdModulus

\* Mutant: operator++ steps to the next row whether it is valid or not.
OperatorInc_NoSkip(lt, pos) ==
  PastTheEnd(valid_rows[lt], Bump(pos))

\* LogicalTile::iterator::operator++(): the new value of pos_.
OperatorInc(lt, pos) ==
  PastTheEnd(valid_rows[lt], SkipInvalid(valid_rows[lt], Bump(pos)))

\* LogicalTile::iterator::operator==: same position, same tile.
IterEqual(tile1, pos1, tile2, pos2) ==
  pos1 = pos2 /\ tile1 = tile2

\* Mutant: operator!= joins its two tests with && instead of ||.
IterNotEqual_And(tile1, pos1, tile2, pos2) ==
  pos1 /= pos2 /\ tile1 /= tile2

\* LogicalTile::iterator::operator!=: another position or another tile.
IterNotEqual(tile1, pos1, tile2, pos2) ==
  pos1 /= pos2 \/ tile1 /= tile2

\* LogicalTile::iterator::operator*.
Deref(pos) ==
  pos

\* it = tile.begin(): a traversal starts.
BeginIter(lt) ==
  /\ Callable(lt)
  /\ it_tile' = lt
  /\ it_pos' = IteratorInit(lt, TRUE)
  /\ it_mutated' = FALSE
  /\ visited' = <<>>
  /\ prev_visited' = IF it_tile = lt /\ ~it_mutated THEN visited ELSE <<>>
  /\ UNCHANGED <<otherVars, NDEBUG, aborted, tileVars, alive, deleted, own_requested>>

\* One round of for (; it != tile.end(); ++it) visit(*it).
Advance ==
  /\ it_tile /= 0
  /\ Callable(it_tile)
  /\ IterNotEqual(it_tile, it_pos, it_tile, IteratorInit(it_tile, FALSE))
  /\ visited' = Append(visited, Deref(it_pos))
  /\ it_pos' = OperatorInc(it_tile, it_pos)
  /\ UNCHANGED <<otherVars, NDEBUG, aborted, tileVars, alive, deleted,
                 it_tile, it_mutated, prev_visited, own_requested>>

\* ------------------------------------------------------- materialization
\* The rows a range-for over the tile visits: begin(), then ++ up to end().
RECURSIVE Walk(_, _)
Walk(lt, pos) ==
  IF IterEqual(lt, pos, lt, IteratorInit(lt, FALSE))
  THEN <<>>
  ELSE <<Deref(pos)>> \o Walk(lt, OperatorInc(lt, pos))

\* old_to_new_cols configurations over the tile's columns: each maps some of
\* the logical columns one-to-one onto the output columns 0 .. k-1.
Mappings(lt) ==
  UNION {{m \in [D -> 0 .. Cardinality(D) - 1] :
            \A a, b \in D : m[a] = m[b] => a = b} :
           D \in (SUBSET (0 .. NumCols(lt) - 1)) \ {{}}}

\* MaterializationExecutor::GenerateTileToColMap: the mapped columns, grouped
\* by the base tile each comes from.
GenerateTileToColMap(lt, old_to_new_cols) ==
  [t \in {GetBaseTile(lt, c) : c \in DOMAIN old_to_new_cols} |->
     {c \in DOMAIN old_to_new_cols : GetBaseTile(lt, c) = t}]

\* MaterializationExecutor::MaterializeByTiles: per base tile and per column
\* of it, the value of every visited row is written to the next output row of
\* the mapped output column. The output: rows in order, each a function from
\* output column to what was written there.
MaterializeByTiles(lt, old_to_new_cols, tile_to_cols) ==
  LET rows == Walk(lt, IteratorInit(lt, TRUE))
      cols == UNION {tile_to_cols[t] : t \in DOMAIN tile_to_cols}
      OldOf(k) == CHOOSE c \in cols : old_to_new_cols[c] = k
  IN [new_tuple_id \in 1 .. Len(rows) |->
        [k \in {old_to_new_cols[c] : c \in cols} |->
           GetValue(lt, OldOf(k), rows[new_tuple_id])]]

\* MaterializationExecutor::DExecute on one input tile: the output tile.
Materialize(lt, old_to_new_cols) ==
  MaterializeByTiles(lt, old_to_new_cols,
                     GenerateTileToColMap(lt, old_to_new_cols))

\* ------------------------------------------------------------ order by
\* Most sort keys, flags and output columns given to an OrderByNode.
MaxKeys == 2

\* Vectors of at most n column ids.
ColumnIdLists(n) ==
  UNION {[1 .. k -> 0 .. PhysCols - 1] : k \in 0 .. n}

\* Vectors of at most n descend flags.
FlagLists(n) ==
  UNION {[1 .. k -> BOOLEAN] : k \in 0 .. n}

\* OrderByNode::OrderByNode(sort_keys, descend_flags, output_column_ids,
\* backend): the member initializers copy the arguments.
OrderByNode(sort_keys, descend_flags, output_column_ids, backend) ==
  /\ ~aborted
  /\ order_by' = [constructed |-> TRUE,
                  sort_keys |-> sort_keys,
                  descend_flags |-> descend_flags,
                  output_column_ids |-> output_column_ids,
                  backend |-> backend]
  /\ UNCHANGED <<logicalTileVars, skip_list_map>>

\* OrderByNode::GetBackend().
GetBackend ==
  order_by.backend

\* OrderByNode::GetSortKeys().
GetSortKeys ==
  order_by.sort_keys

\* OrderByNode::GetDescendFlags().
GetDescendFlags ==
  order_by.descend_flags

\* OrderByNode::GetOutputColumnIds().
GetOutputColumnIds ==
  order_by.output_column_ids

\* -------------------------------------------------------- skip list map
\* Largest key and largest value stored in the map.
MaxKey == 2
MaxValue == 2

Keys == 0 .. MaxKey
Values == 0 .. MaxValue

\* ValueType(): the mapped value of an entry created from its key alone.
DefaultValue == 0

\* SkipListMap::Contains(key).
Contains(key) ==
  \E e \in skip_list_map : e[1] = key

\* The value stored under a key the map contains.
Stored(key) ==
  (CHOOSE e \in skip_list_map : e[1] = key)[2]

\* SkipListMap::Insert(key, value): a new entry unless the key is present.
Insert(key, value) ==
  /\ ~aborted
  /\ skip_list_map' =
       IF Contains(key)
       THEN skip_list_map
       ELSE skip_list_map \cup {<<key, value>>}
  /\ UNCHANGED <<logicalTileVars, order_by>>

\* Value Insert returns: whether the entry was inserted.
InsertReturn(key) ==
  ~Contains(key)

\* SkipListMap::Update(key, value) with bInsert = true: the functor stores the
\* value in an entry that was found and leaves a new entry as it was created.
Update(key, value) ==
  /\ ~aborted
  /\ skip_list_map' =
       IF Contains(key)
       THEN {e \in skip_list_map : e[1] /= key} \cup {<<key, value>>}
       ELSE skip_list_map \cup {<<key, DefaultValue>>}
  /\ UNCHANGED <<logicalTileVars, order_by>>

\* SkipListMap::Erase(key).
Erase(key) ==
  /\ ~aborted
  /\ skip_list_map' = {e \in skip_list_map : e[1] /= key}
  /\ UNCHANGED <<logicalTileVars, order_by>>

\* SkipListMap::Find(key, value): the status and the out-parameter, which is
\* assigned only when the key is found.
Find(key, value) ==
  IF Contains(key)
  THEN [status |-> TRUE, value |-> Stored(key)]
  ELSE [status |-> FALSE, value |-> value]

\* SkipListMap::Clear().
Clear ==
  /\ ~aborted
  /\ skip_list_map' = {}
  /\ UNCHANGED <<logicalTileVars, order_by>>

\* SkipListMap::GetSize().
GetSize ==
  Cardinality(skip_list_map)

\* SkipListMap::IsEmpty().
IsEmpty ==
  skip_list_map = {}

\* ------------------------------------------------------ specifications
\* One logical tile: build phase and filtering.
Next ==
  \/ \E pl \in Lists(MaxLen) :
       /\ Len(position_lists[1]) + Len(schema[1]) < MaxEntries
       /\ AddPositionList(1, pl)
  \/ \E t \in Tiles, own \in BOOLEAN, oc \in 0 .. PhysCols - 1,
        idx \in 0 .. Len(position_lists[1]) :
       /\ Len(position_lists[1]) + Len(schema[1]) < MaxEntries
       /\ AddColumn(1, t, own, oc, idx)
  \/ \E r \in 0 .. MaxLen - 1 : InvalidateRow(1, r)

Spec ==
  Init /\ [][Next]_vars

\* The input of the materialization executor: a logical tile built over base
\* tiles it does not own, then filtered.
NextMat ==
  \/ \E pl \in Lists(MaxLen) :
       /\ Len(position_lists[1]) + Len(schema[1]) < MaxEntries
       /\ AddPositionList(1, pl)
  \/ \E t \in Tiles, oc \in 0 .. PhysCols - 1,
        idx \in 0 .. Len(position_lists[1]) :
       /\ Len(position_lists[1]) + Len(schema[1]) < MaxEntries
       /\ AddColumn(1, t, FALSE, oc, idx)
  \/ \E r \in 0 .. MaxLen - 1 : InvalidateRow(1, r)

SpecMat ==
  Init /\ [][NextMat]_vars

\* Most position lists added to a tile that is traversed.
IterLists == 2

\* One logical tile: its position lists, filtering and traversals.
NextIter ==
  \/ \E pl \in Lists(MaxLen) :
       /\ Len(position_lists[1]) < IterLists
       /\ AddPositionList(1, pl)
  \/ \E r \in 0 .. MaxLen - 1 : InvalidateRow(1, r)
  \/ BeginIter(1)
  \/ Advance

SpecIter ==
  Init /\ [][NextIter]_vars

\* Most position lists and columns, together, of a tile that shares base tiles.
OwnEntries == 3

\* Two logical tiles over the same base tiles, and their destruction.
NextOwn ==
  \/ \E lt \in LTiles :
       /\ Len(position_lists[lt]) + Len(schema[lt]) < OwnEntries
       /\ AddPositionList(lt, <<0>>)
  \/ \E lt \in LTiles, t \in Tiles, own \in BOOLEAN :
       /\ Len(position_lists[lt]) + Len(schema[lt]) < OwnEntries
       /\ AddColumn(lt, t, own, 0, 0)
  \/ \E lt \in LTiles : Destroy(lt)

SpecOwn ==
  Init /\ [][NextOwn]_vars

\* The planner configures order-by nodes.
NextOrderBy ==
  \E sort_keys \in ColumnIdLists(MaxKeys), descend_flags \in FlagLists(MaxKeys),
     output_column_ids \in ColumnIdLists(MaxKeys), backend \in Backends :
    OrderByNode(sort_keys, descend_flags, output_column_ids, backend)

SpecOrderBy ==
  Init /\ [][NextOrderBy]_vars

\* The operations of one SkipListMap<uint32_t, uint32_t>.
NextMap ==
  \/ \E key \in Keys, value \in Values : Insert(key, value)
  \/ \E key \in Keys, value \in Values : Update(key, value)
  \/ \E key \in Keys : Erase(key)
  \/ Clear

SpecMap ==
  Init /\ [][NextMap]_vars

\* ---------------------------------------------------------------- claims
\* The logical rows r with v[r] true, ascending.
ValidRowSeq(v) ==
  SelectSeq([i \in 1 .. Len(v) |-> i - 1], LAMBDA r : v[r + 1])

AllValid(lt) ==
  \A i \in 1 .. Len(valid_rows[lt]) : valid_rows[lt][i]

\* C1: once a tile holds a position list, NumTuples() is the length of the
\* first list added and every stored position list has that length.
C1_FirstListFixesLength ==
  \A lt \in LTiles :
    Len(position_lists[lt]) > 0 =>
      /\ NumTuples(lt) = Len(position_lists[lt][1])
      /\ \A i \in 1 .. Len(position_lists[lt]) :
           Len(position_lists[lt][i]) = NumTuples(lt)

\* C2: AddPositionList on a tile that holds a list, with a list of another
\* length, ends in an error and changes nothing of the tile.
C2_MismatchRejected ==
  [][\A pl \in Lists(MaxLen) :
       (/\ Len(position_lists[1]) > 0
        /\ Len(pl) /= Len(position_lists[1][1])
        /\ AddPositionList(1, pl))
         => (aborted' /\ UNCHANGED tileVars)]_vars

\* C3: a traversal from begin() over an unchanged bitmap dereferences the
\* valid rows in ascending order, each once, is at the next valid row after
\* each increment, and equals end() after as many increments as valid rows.
C3_IterationYieldsValidRows ==
  (it_tile /= 0 /\ ~it_mutated) =>
    LET expected == ValidRowSeq(valid_rows[it_tile])
        n == Len(visited)
    IN /\ n <= Len(expected)
       /\ visited = SubSeq(expected, 1, n)
       /\ it_pos = (IF n < Len(expected) THEN expected[n + 1] ELSE INVALID_ID)
       /\ (it_pos = INVALID_ID => visited = expected)
       /\ (AllValid(it_tile) /\ it_pos = INVALID_ID
             => visited = [i \in 1 .. Len(valid_rows[it_tile]) |-> i - 1])

\* C3 witness: a finished traversal that skipped an invalidated first row.
C3_Witness ==
  /\ it_tile = 1
  /\ ~it_mutated
  /\ valid_rows[1] = <<FALSE, TRUE>>
  /\ it_pos = INVALID_ID
  /\ visited = <<1>>

\* The descriptor of column c names a stored position list that holds row r.
DescriptorDenotes(lt, c, r) ==
  /\ schema[lt][c + 1].position_list_idx < Len(position_lists[lt])
  /\ r < Len(position_lists[lt][schema[lt][c + 1].position_list_idx + 1])

\* The physical row the descriptor of column c gives for logical row r.
PhysicalRow(lt, c, r) ==
  position_lists[lt][schema[lt][c + 1].position_list_idx + 1][r + 1]

\* C4: in a tile with every row valid, GetValue(c, r) is the base tile's
\* value at row position_lists[schema[c].position_list_idx][r] and column
\* schema[c].origin_column_id, and GetTuple(c, r) is the base tile's tuple at
\* that row, for every column c and row r whose descriptor denotes a row.
C4_GetValueResolves ==
  \A lt \in LTiles :
    (alive[lt] /\ AllValid(lt)) =>
      \A c \in 0 .. NumCols(lt) - 1, r \in 0 .. NumTuples(lt) - 1 :
        DescriptorDenotes(lt, c, r) =>
          /\ GetValue(lt, c, r) =
               {ValueOutcome(TileValue(schema[lt][c + 1].base_tile,
                                       PhysicalRow(lt, c, r),
                                       schema[lt][c + 1].origin_column_id))}
          /\ GetTuple(lt, c, r) =
               {TupleOutcome(schema[lt][c + 1].base_tile, PhysicalRow(lt, c, r))}

\* C4 witness: a column over the second position list, which reorders rows.
C4_Witness ==
  /\ position_lists[1] = <<<<0, 1>>, <<1, 0>>>>
  /\ schema[1] = <<[base_tile |-> "t2", origin_column_id |-> 1,
                    position_list_idx |-> 1]>>
  /\ AllValid(1)
  /\ GetValue(1, 0, 0) = {ValueOutcome(211)}
  /\ GetValue(1, 0, 1) = {ValueOutcome(201)}

\* C5: on an invalidated row every column reads as the sentinel: GetValue
\* gives the invalid value and GetTuple the null tuple, and nothing else,
\* whatever the column's descriptor holds.
C5_InvalidRowSentinel ==
  \A lt \in LTiles :
    alive[lt] =>
      \A c \in 0 .. NumCols(lt) - 1, r \in 0 .. Len(valid_rows[lt]) - 1 :
        ~valid_rows[lt][r + 1] =>
          /\ GetValue(lt, c, r) = {InvalidValue}
          /\ GetTuple(lt, c, r) = {NullTuple}

\* C5 witness: an invalidated row read through a descriptor whose position
\* list does not exist.
C5_Witness ==
  /\ Len(schema[1]) > 0
  /\ Len(valid_rows[1]) > 0
  /\ ~valid_rows[1][1]
  /\ ~DescriptorDenotes(1, 0, 0)
  /\ GetValue(1, 0, 0) = {InvalidValue}
  /\ GetTuple(1, 0, 0) = {NullTuple}

\* C6: destroying a logical tile deletes every base tile that an AddColumn
\* passed with own_base_tile set exactly once, however many columns reference
\* it, and deletes no other base tile.
C6_DestroyReleasesOwnedOnce ==
  [][\A lt \in LTiles :
       Destroy(lt) =>
         \A t \in Tiles :
           deleted'[t] = deleted[t] + (IF t \in own_requested[lt] THEN 1 ELSE 0)]_vars

\* C6 witness: tile 1 destroyed after two columns over the owned t1 and one
\* over the unowned t2; t1 was deleted once, t2 never.
C6_Witness ==
  /\ ~alive[1] /\ alive[2]
  /\ Len(schema[1]) = 3
  /\ schema[1][1].base_tile = "t1"
  /\ schema[1][2].base_tile = "t1"
  /\ schema[1][3].base_tile = "t2"
  /\ own_requested[1] = {"t1"}
  /\ deleted = [t \in Tiles |-> IF t = "t1" THEN 1 ELSE 0]

\* C7: whatever AddColumn calls the logical tiles received and in whatever
\* order they are destroyed, every base tile is deleted at most once in total.
C7_ReleasedAtMostOnce ==
  \A t \in Tiles : deleted[t] <= 1

\* C8: every schema descriptor's position_list_idx is smaller than the number
\* of position lists the tile holds.
C8_DescriptorIndexExists ==
  \A lt \in LTiles :
    \A c \in 1 .. Len(schema[lt]) :
      schema[lt][c].position_list_idx < Len(position_lists[lt])

MappingDenotes(lt, m) ==
  \A c \in DOMAIN m, r \in 0 .. Len(valid_rows[lt]) - 1 :
    valid_rows[lt][r + 1] => DescriptorDenotes(lt, c, r)

\* The output the claim describes: one row per visible row, in logical row
\* order; output column m[c] holds the value of logical column c.
ExpectedOutput(lt, m) ==
  LET rows == ValidRowSeq(valid_rows[lt])
  IN [i \in 1 .. Len(rows) |->
        [k \in {m[c] : c \in DOMAIN m} |->
           LET c == CHOOSE x \in DOMAIN m : m[x] = k
           IN {ValueOutcome(TileValue(schema[lt][c + 1].base_tile,
                                      PhysicalRow(lt, c, rows[i]),
                                      schema[lt][c + 1].origin_column_id))}]]

\* C10: for every column mapping whose columns denote rows, the materialized
\* tile has one row per visible row of the input, in logical row order, and
\* its column k holds the values of the logical column mapped to k.
C10_MaterializePreservesRows ==
  \A lt \in LTiles :
    alive[lt] =>
      \A m \in Mappings(lt) :
        MappingDenotes(lt, m) =>
          LET out == Materialize(lt, m)
          IN /\ Len(out) = Len(ValidRowSeq(valid_rows[lt]))
             /\ out = ExpectedOutput(lt, m)

\* C10 witness: position list [1, 0] over columns [A, B] of t1, mapping
\* {0 -> 0}: the output holds physical rows 1, 0 of column A, in that order.
C10_Witness ==
  /\ position_lists[1] = <<<<1, 0>>>>
  /\ schema[1] = <<[base_tile |-> "t1", origin_column_id |-> 0,
                    position_list_idx |-> 0],
                   [base_tile |-> "t1", origin_column_id |-> 1,
                    position_list_idx |-> 0]>>
  /\ AllValid(1)
  /\ LET m == [c \in {0} |-> 0]
     IN /\ m \in Mappings(1)
        /\ Materialize(1, m) =
             <<[k \in {0} |-> {ValueOutcome(110)}],
               [k \in {0} |-> {ValueOutcome(100)}]>>


\* C11: a constructed OrderByNode has as many descend flags as sort keys: no
\* node with sort_keys.length /= descend_flags.length is observable through
\* GetSortKeys() and GetDescendFlags().
C11_SortConfigLengthsMatch ==
  order_by.constructed => Len(GetSortKeys) = Len(GetDescendFlags)

\* The number of rows of a tile whose validity bit is cleared.
NumInvalid(lt) ==
  Cardinality({i \in 1 .. Len(valid_rows[lt]) : ~valid_rows[lt][i]})

InRange(lt, column_id, tuple_id) ==
  column_id < NumCols(lt) /\ tuple_id < NumTuples(lt)

\* C13: a GetValue or GetTuple call with column_id >= NumCols() or
\* tuple_id >= NumTuples() fails, whatever the validity bit of the row, and
\* never returns the sentinel; the sentinel (invalid value, NULL tuple) is
\* returned only for an in-range field of an invalidated row.
C13_ErrorClassesDistinct ==
  \A lt \in LTiles :
    Callable(lt) =>
      \A column_id \in 0 .. MaxEntries, tuple_id \in 0 .. MaxLen :
        /\ ~InRange(lt, column_id, tuple_id) =>
             /\ GetValue(lt, column_id, tuple_id) = {AbortOutcome}
             /\ GetTuple(lt, column_id, tuple_id) = {AbortTuple}
        /\ (\/ InvalidValue \in GetValue(lt, column_id, tuple_id)
            \/ NullTuple \in GetTuple(lt, column_id, tuple_id)) =>
             /\ InRange(lt, column_id, tuple_id)
             /\ InBounds(valid_rows[lt], tuple_id)
             /\ ~valid_rows[lt][tuple_id + 1]

\* Sequence s is the beginning of sequence t.
IsPrefix(s, t) ==
  Len(s) <= Len(t) /\ SubSeq(t, 1, Len(s)) = s

\* C14: building is append-only. A step that adds a column descriptor leaves
\* num_tuples, valid_rows, every position list and every earlier descriptor
\* unchanged; a step that adds a position list other than the first leaves
\* num_tuples, valid_rows, the schema, the owned set and every earlier list
\* unchanged; no step removes or rewrites a descriptor or a position list.
C14_AppendOnly ==
  [][\A lt \in LTiles :
       /\ IsPrefix(schema[lt], schema'[lt])
       /\ IsPrefix(position_lists[lt], position_lists'[lt])
       /\ schema'[lt] /= schema[lt] =>
            /\ Len(schema'[lt]) = Len(schema[lt]) + 1
            /\ num_tuples'[lt] = num_tuples[lt]
            /\ valid_rows'[lt] = valid_rows[lt]
            /\ position_lists'[lt] = position_lists[lt]
       /\ (position_lists'[lt] /= position_lists[lt]
           /\ Len(position_lists[lt]) > 0) =>
            /\ Len(position_lists'[lt]) = Len(position_lists[lt]) + 1
            /\ num_tuples'[lt] = num_tuples[lt]
            /\ valid_rows'[lt] = valid_rows[lt]
            /\ schema'[lt] = schema[lt]
            /\ owned_base_tiles'[lt] = owned_base_tiles[lt]]_vars

\* C14 witness: a second position list and a column were added to a tile
\* that owns a base tile and has an invalidated row.
C14_Witness ==
  /\ Len(position_lists[1]) = 2
  /\ Len(schema[1]) = 1
  /\ owned_base_tiles[1] /= {}
  /\ valid_rows[1] = <<FALSE, TRUE>>

\* C15: an accepted AddPositionList returns the number of lists the tile held
\* before the call, the list stored at the returned index is the list passed
\* in (the step is the call with that list as its argument), and an AddColumn
\* that uses the returned index passes its check.
C15_ReturnsIndexOfStoredList ==
  [][position_lists'[1] /= position_lists[1] =>
       \E returned \in 0 .. MaxEntries :
         /\ returned = AddPositionListReturn(1)'
         /\ returned = Len(position_lists[1])
         /\ InBounds(position_lists'[1], returned)
         /\ AddPositionList(1, position_lists'[1][returned + 1])
         /\ AddColumnAssert(1, returned)']_vars

\* C15 witness: the second AddPositionList returned 1 and a column was added
\* with that index.
C15_Witness ==
  /\ ~aborted
  /\ Len(position_lists[1]) = 2
  /\ AddPositionListReturn(1) = 1
  /\ Len(schema[1]) = 1
  /\ schema[1][1].position_list_idx = AddPositionListReturn(1)

\* C16: an accepted AddColumn with own_base_tile set on a base tile the
\* logical tile already owns leaves the owned set unchanged, one with the flag
\* unset leaves the owned set unchanged whatever it holds, one with the flag
\* set adds exactly that base tile; so the owned set is the set of base tiles
\* some accepted AddColumn passed with the flag set, in whatever order.
C16_OwnedSetIsRequestedSet ==
  [][\A lt \in LTiles, t \in Tiles, own \in BOOLEAN :
       (AddColumn(lt, t, own, 0, 0) /\ ~aborted') =>
         /\ (own /\ t \in owned_base_tiles[lt]) =>
              owned_base_tiles'[lt] = owned_base_tiles[lt]
         /\ ~own => owned_base_tiles'[lt] = owned_base_tiles[lt]
         /\ own => owned_base_tiles'[lt] = owned_base_tiles[lt] \cup {t}
         /\ owned_base_tiles'[lt] = own_requested'[lt]
         /\ \A other \in LTiles \ {lt} :
              owned_base_tiles'[other] = owned_base_tiles[other]]_vars

\* C16 witness: three columns over t1, t1 and t2 on a live tile that owns t1
\* only.
C16_Witness ==
  /\ alive[1] /\ ~aborted
  /\ Len(schema[1]) = 3
  /\ schema[1][1].base_tile = "t1"
  /\ schema[1][2].base_tile = "t1"
  /\ schema[1][3].base_tile = "t2"
  /\ owned_base_tiles[1] = {"t1"}

\* The positions an iterator of the model's tiles can hold.
Positions ==
  0 .. MaxLen \cup {INVALID_ID}

\* What a fresh begin() .. end() traversal of the tile yields now.
FreshTraversal(lt) ==
  Walk(lt, IteratorInit(lt, TRUE))

\* A traversal restarted over an unchanged bitmap repeats the one before it:
\* what the earlier traversal yielded and what the current one yielded and
\* has yet to yield are the sequence a fresh begin() yields.
Restartable ==
  (it_tile /= 0 /\ ~it_mutated) =>
    /\ IsPrefix(prev_visited, FreshTraversal(it_tile))
    /\ visited \o Walk(it_tile, it_pos) = FreshTraversal(it_tile)

\* operator== holds exactly for the same position on the same tile, and
\* operator!= is its negation.
EqualityIsIdentity ==
  \A tile1, tile2 \in LTiles, pos1, pos2 \in Positions :
    /\ IterEqual(tile1, pos1, tile2, pos2) <=> (tile1 = tile2 /\ pos1 = pos2)
    /\ IterNotEqual(tile1, pos1, tile2, pos2) <=> ~IterEqual(tile1, pos1, tile2, pos2)

\* C17: obtaining an iterator and advancing it change nothing of the tile
\* (schema, position lists, bitmap, num_tuples, owned set); a begin()
\* obtained after a partial or complete traversal yields the same rows as that
\* traversal when no row was invalidated in between; two iterators are equal
\* exactly when they are at the same position of the same tile.
C17_IterationReadOnlyRestartable ==
  /\ [][(BeginIter(1) \/ Advance) => UNCHANGED tileVars]_vars
  /\ [](Restartable /\ EqualityIsIdentity)

\* C17 witness: a traversal abandoned after its first row, then a second one
\* run to the end over the same bitmap.
C17_Witness ==
  /\ it_tile = 1
  /\ ~it_mutated
  /\ prev_visited = <<0>>
  /\ visited = <<0, 1>>
  /\ it_pos = INVALID_ID

\* C18: begin() == end() exactly when the tile has no valid row, and then a
\* begin() .. end() loop runs zero times; this covers a tile without position
\* list, a tile whose first list is empty and a tile whose rows are all
\* invalidated.
C18_BeginIsEndIffNoValidRow ==
  \A lt \in LTiles :
    Callable(lt) =>
      LET empty == IterEqual(lt, IteratorInit(lt, TRUE), lt, IteratorInit(lt, FALSE))
      IN /\ empty <=> (ValidRowSeq(valid_rows[lt]) = <<>>)
         /\ empty <=> (Walk(lt, IteratorInit(lt, TRUE)) = <<>>)
         /\ Len(position_lists[lt]) = 0 => empty
         /\ (Len(position_lists[lt]) > 0 /\ Len(position_lists[lt][1]) = 0) => empty
         /\ (\A i \in 1 .. Len(valid_rows[lt]) : ~valid_rows[lt][i]) => empty

\* C18 witness: both rows of a two-row tile are invalidated and begin() is
\* end().
C18_Witness ==
  /\ Callable(1)
  /\ valid_rows[1] = <<FALSE, FALSE>>
  /\ IterEqual(1, IteratorInit(1, TRUE), 1, IteratorInit(1, FALSE))

\* No two entries of the map have the same key.
KeyUnique ==
  \A e1, e2 \in skip_list_map : e1[1] = e2[1] => e1 = e2

\* C19: Update is update-or-insert. After Update(key, value), Find(key)
\* succeeds and yields value, whether the key was present or absent before;
\* the map stays key-unique and GetSize() grows by one only when the key was
\* absent.
C19_UpdateIsUpsert ==
  [][\A key \in Keys, value \in Values :
       Update(key, value) =>
         /\ Find(key, DefaultValue)' = [status |-> TRUE, value |-> value]
         /\ KeyUnique'
         /\ GetSize' = GetSize + (IF Contains(key) THEN 0 ELSE 1)]_vars

====
